---- MODULE Spec2Model ----
(***************************************************************************)
(* Model of the zmanim countdown controller of clock.js: the globals       *)
(* netzTime / sunsetTime / alotHashaharTime / mode / countdownInterval,    *)
(* the browser's timer table (setInterval / setTimeout), the requests of   *)
(* fetchZmanim that are in flight, and the text and colour of the display  *)
(* fields the controller writes.                                           *)
(*                                                                         *)
(* Time is in milliseconds and is kept relative to local midnight of the   *)
(* current day: when the clock crosses midnight every stored instant and   *)
(* every requested date is shifted back by one day.  The clock advances in *)
(* steps of one timer period.  Timers fire on time: the clock does not     *)
(* advance past a timer that is due.  A day of the model is DayLen clock   *)
(* steps long, and the provider answers every request for a date with the  *)
(* same sunrise and sunset time of day.                                    *)
(***************************************************************************)
EXTENDS Integers, Sequences, FiniteSets

VARIABLES now, loaded, netzTime, sunsetTime, alotHashaharTime, mode,
          countdownInterval, intervals, timeouts, fetches, waited, cd, info

vars == <<now, loaded, netzTime, sunsetTime, alotHashaharTime, mode,
          countdownInterval, intervals, timeouts, fetches, waited, cd, info>>

(***************************************************************************)
(* Bounds of the model.                                                    *)
(***************************************************************************)
DayLen == 24         \* clock steps in one day of the model
SunriseStep == 2     \* sunrise, in clock steps after midnight
SunsetStep == 12     \* sunset, in clock steps after midnight
MaxFetches == 2      \* requests of fetchZmanim in flight at once
MaxStaleDays == 1    \* days a request in flight may lie behind today
MaxTimerIds == 6     \* size of the pool of timer ids
MaxLatency == 8      \* clock steps a response takes at most when the network is prompt
MaxSample == 100     \* number of generated samples of the remaining time

(***************************************************************************)
(* Constants of the program.                                               *)
(***************************************************************************)
TickPeriod == 1000          \* setInterval(tick, 1000)
GraceDelay == 5000          \* setTimeout(..., 5000)
NinetyMinutes == 90 * 60 * 1000
TwoMinutes == 2 * 60 * 1000
FiveMinutes == 5 * 60 * 1000
AlotOffset == 72 * 60 * 1000

MinDate == 0 - MaxStaleDays     \* the oldest date, relative to today, a request in flight asks for
DayMs == DayLen * TickPeriod
SunriseMs == SunriseStep * TickPeriod
SunsetMs == SunsetStep * TickPeriod

Null == 0 - 1000000000      \* the value null of a time that was never fetched

Targets == {"netz", "sunset"}
Dates == MinDate .. 1

\* display texts; a text is a sequence of characters
Placeholder == <<"-", "-", ":", "-", "-", ":", "-", "-">>
PassedText == <<"[time passed]">>       \* the Hebrew text of line 221
ApiErrorText == <<"[API error]">>       \* the Hebrew text of lines 66-67
ErrorText == <<"[error]">>              \* the Hebrew text of lines 68-70
NoText == <<>>                          \* a field nothing was written to
TimeText == <<"H:mm">>                  \* a time formatted by format('H:mm')

(***************************************************************************)
(* String helpers of tick.                                                 *)
(***************************************************************************)
Digit == <<"0", "1", "2", "3", "4", "5", "6", "7", "8", "9">>

RECURSIVE numToString(_)
numToString(n) ==
    IF n < 10 THEN <<Digit[n + 1]>>
    ELSE numToString(n \div 10) \o <<Digit[(n % 10) + 1]>>

\* padStart that never pads
padStartNoPad(s, len, ch) == s

RECURSIVE padStart(_, _, _)
padStart(s, len, ch) ==
    IF Len(s) >= len THEN s ELSE padStart(<<ch>> \o s, len, ch)

durationHours(ms) == (ms \div 3600000) % 24
durationMinutes(ms) == (ms \div 60000) % 60
durationSeconds(ms) == (ms \div 1000) % 60

otherTarget(targetId) == IF targetId = "netz" THEN "sunset" ELSE "netz"
defaultColor(targetId) == IF targetId = "netz" THEN "blue" ELSE "orange"

timeStr(diffMs) ==
    padStart(numToString(durationHours(diffMs)), 2, "0") \o <<":">> \o
    padStart(numToString(durationMinutes(diffMs)), 2, "0") \o <<":">> \o
    padStart(numToString(durationSeconds(diffMs)), 2, "0")

tickColor(diffMs, targetId) ==
    IF diffMs <= TwoMinutes THEN "red"
    ELSE IF diffMs <= FiveMinutes THEN "orange"
    ELSE defaultColor(targetId)

(***************************************************************************)
(* The timer table.  A timer id that no timer and no variable holds is     *)
(* indistinguishable from a new one, so the smallest such id is handed out.*)
(***************************************************************************)
usedIds(s) == {i.id : i \in s.intervals} \cup {t.id : t \in s.timeouts}
                  \cup {s.countdownInterval}

freshId(s) == CHOOSE i \in 1 .. MaxTimerIds :
                  /\ i \notin usedIds(s)
                  /\ \A j \in 1 .. (i - 1) : j \in usedIds(s)

clearInterval(s, id) == [s EXCEPT !.intervals = {i \in @ : i.id # id}]

(***************************************************************************)
(* tick: one run of the closure of startCountdown, reading the clock as    *)
(* tnow.  s is the part of the state that startCountdown and tick touch.   *)
(***************************************************************************)
tick(tnow, targetTime, targetId, s) ==
    LET diffMs == targetTime - tnow IN
    IF diffMs <= 0 THEN
        LET s1 == [s EXCEPT !.cd[targetId] = [text |-> PassedText, color |-> "red"]]
            s2 == clearInterval(s1, s1.countdownInterval)
        IN  [s2 EXCEPT !.timeouts = @ \cup
                {[id |-> freshId(s2), targetId |-> targetId, due |-> tnow + GraceDelay]}]
    ELSE IF diffMs > NinetyMinutes THEN
        [s EXCEPT !.cd[targetId] = [text |-> Placeholder, color |-> defaultColor(targetId)]]
    ELSE
        [s EXCEPT !.cd[targetId] = [text |-> timeStr(diffMs),
                                    color |-> tickColor(diffMs, targetId)]]

\* startCountdown that leaves the other target's field as it is
startCountdownNoReset(tnow, targetTime, targetId, s) ==
    LET s1 == IF s.countdownInterval # 0
              THEN clearInterval(s, s.countdownInterval) ELSE s
    IN  IF targetTime = Null THEN s1
        ELSE
        LET s3 == tick(tnow, targetTime, targetId, s1)
            id == freshId(s3)
        IN  [s3 EXCEPT !.intervals = @ \cup
                    {[id |-> id, targetTime |-> targetTime, targetId |-> targetId,
                      due |-> tnow + TickPeriod]},
                !.countdownInterval = id]

\* startCountdown that does not cancel the timer held in countdownInterval
startCountdownNoClear(tnow, targetTime, targetId, s) ==
    IF targetTime = Null THEN s
    ELSE
    LET s2 == [s EXCEPT !.cd[otherTarget(targetId)] =
                   [text |-> Placeholder, color |-> defaultColor(otherTarget(targetId))]]
        s3 == tick(tnow, targetTime, targetId, s2)
        id == freshId(s3)
    IN  [s3 EXCEPT !.intervals = @ \cup
                {[id |-> id, targetTime |-> targetTime, targetId |-> targetId,
                  due |-> tnow + TickPeriod]},
            !.countdownInterval = id]

startCountdown(tnow, targetTime, targetId, s) ==
    LET s1 == IF s.countdownInterval # 0
              THEN clearInterval(s, s.countdownInterval) ELSE s
    IN  IF targetTime = Null THEN s1
        ELSE
        LET s2 == [s1 EXCEPT !.cd[otherTarget(targetId)] =
                       [text |-> Placeholder, color |-> defaultColor(otherTarget(targetId))]]
            s3 == tick(tnow, targetTime, targetId, s2)
            id == freshId(s3)
        IN  [s3 EXCEPT !.intervals = @ \cup
                    {[id |-> id, targetTime |-> targetTime, targetId |-> targetId,
                      due |-> tnow + TickPeriod]},
                !.countdownInterval = id]

calculateAlotHashahar(netz) == netz - AlotOffset

handleApiError(c) ==
    [t \in Targets |-> [c[t] EXCEPT !.text = ApiErrorText]]

\* the part of the state that startCountdown and tick work on
timerState == [cd |-> cd, intervals |-> intervals, timeouts |-> timeouts,
               countdownInterval |-> countdownInterval]

setTimerState(s) ==
    /\ cd' = s.cd
    /\ intervals' = s.intervals
    /\ timeouts' = s.timeouts
    /\ countdownInterval' = s.countdownInterval

RECURSIVE sumFrom(_, _)
sumFrom(f, d) == IF d > 1 THEN 0 ELSE f[d] + sumFrom(f, d + 1)

\* number of requests of fetchZmanim awaiting their response
inFlight == sumFrom(fetches, MinDate)

\* fetchZmanim that ignores forTomorrow and always asks for today
sendRequestToday(f, forTomorrow) == [f EXCEPT ![0] = @ + 1]

\* fetchZmanim up to its first await: the request for today or tomorrow is sent
sendRequest(f, forTomorrow) ==
    LET date == IF forTomorrow THEN 1 ELSE 0 IN [f EXCEPT ![date] = @ + 1]

(***************************************************************************)
(* Initial state: the globals of lines 22-29, no timer, no request.  The   *)
(* page can be loaded at any time of day.                                  *)
(***************************************************************************)
StartTimes == {k * TickPeriod : k \in 0 .. (DayLen - 1)}

Init ==
    /\ now \in StartTimes
    /\ loaded = FALSE
    /\ netzTime = Null
    /\ sunsetTime = Null
    /\ alotHashaharTime = Null
    /\ mode = "netz"
    /\ countdownInterval = 0
    /\ intervals = {}
    /\ timeouts = {}
    /\ fetches = [d \in Dates |-> 0]
    /\ waited = 0
    /\ cd = [t \in Targets |-> [text |-> Placeholder, color |-> defaultColor(t)]]
    /\ info = NoText

(***************************************************************************)
(* Actions.                                                                *)
(***************************************************************************)
\* the DOMContentLoaded handler: its call of fetchZmanim()
DOMContentLoaded ==
    /\ ~loaded
    /\ loaded' = TRUE
    /\ fetches' = sendRequest(fetches, FALSE)
    /\ UNCHANGED <<now, netzTime, sunsetTime, alotHashaharTime, mode,
                   countdownInterval, intervals, timeouts, waited, cd, info>>

\* fetchZmanim after the await, when the response is not ok or incomplete
FetchFailure(date) ==
    /\ fetches[date] > 0
    /\ fetches' = [fetches EXCEPT ![date] = @ - 1]
    /\ cd' = handleApiError(cd)
    /\ info' = ErrorText
    /\ UNCHANGED <<now, loaded, netzTime, sunsetTime, alotHashaharTime, mode,
                   countdownInterval, intervals, timeouts, waited>>

\* fetchZmanim after the await, with a complete response for the requested
\* date.  The clock is read on line 302 and again by the first tick; elapsed
\* is the time that passes between the two readings.
FetchSuccess(date, elapsed) ==
    /\ fetches[date] > 0
    /\ elapsed > 0 =>
          /\ now + elapsed < DayMs
          /\ \A t \in intervals \cup timeouts : t.due > now
    /\ LET netz == date * DayMs + SunriseMs
           sunset == date * DayMs + SunsetMs
           diffNetz == netz - now
           diffSunset == sunset - now
           f == [fetches EXCEPT ![date] = @ - 1]
       IN  /\ netzTime' = netz
           /\ sunsetTime' = sunset
           /\ alotHashaharTime' = calculateAlotHashahar(netz)
           /\ info' = TimeText
           /\ IF diffNetz > 0 THEN
                 /\ mode' = "netz"
                 /\ setTimerState(startCountdown(now + elapsed, netz, "netz", timerState))
                 /\ fetches' = f
                 /\ now' = now + elapsed
              ELSE IF diffSunset > 0 THEN
                 /\ mode' = "sunset"
                 /\ setTimerState(startCountdown(now + elapsed, sunset, "sunset", timerState))
                 /\ fetches' = f
                 /\ now' = now + elapsed
              ELSE
                 /\ elapsed = 0
                 /\ mode' = "netz"
                 /\ fetches' = sendRequest(f, TRUE)
                 /\ UNCHANGED <<now, cd, intervals, timeouts, countdownInterval>>
    /\ UNCHANGED <<loaded, waited>>

\* a callback that keeps the mode of the expired countdown
nextModeSame(targetId) == targetId

\* the mode the callback of setTimeout switches to
nextMode(targetId) == IF targetId = "netz" THEN "sunset" ELSE "netz"

\* the callback of setTimeout in tick, run when its delay has passed
GraceFire(to) ==
    /\ to \in timeouts
    /\ now >= to.due
    /\ inFlight < MaxFetches
    /\ timeouts' = timeouts \ {to}
    /\ mode' = nextMode(to.targetId)
    /\ fetches' = sendRequest(fetches, mode' = "netz")
    /\ UNCHANGED <<now, loaded, netzTime, sunsetTime, alotHashaharTime,
                   countdownInterval, intervals, waited, cd, info>>

\* a run of tick from the interval timer i
IntervalTick(i) ==
    /\ i \in intervals
    /\ now >= i.due
    /\ LET s == tick(now, i.targetTime, i.targetId, timerState)
       IN  setTimerState([s EXCEPT !.intervals =
               {IF j.id = i.id THEN [j EXCEPT !.due = @ + TickPeriod] ELSE j : j \in @}])
    /\ UNCHANGED <<now, loaded, netzTime, sunsetTime, alotHashaharTime, mode,
                   fetches, waited, info>>

\* the shift of every stored instant when the clock crosses midnight
shiftTime(t) == IF t = Null THEN Null ELSE t - DayMs

\* something can still happen: a timer is armed or a request is in flight
pending == intervals # {} \/ timeouts # {} \/ inFlight > 0 \/ ~loaded

\* the clock advances by one step
clockStep ==
    /\ pending
    /\ \A t \in intervals \cup timeouts : t.due > now
    /\ IF now + TickPeriod < DayMs THEN
          /\ now' = now + TickPeriod
          /\ UNCHANGED <<netzTime, sunsetTime, alotHashaharTime, intervals,
                         timeouts, fetches>>
       ELSE
          /\ fetches[MinDate] = 0
          /\ now' = now + TickPeriod - DayMs
          /\ netzTime' = shiftTime(netzTime)
          /\ sunsetTime' = shiftTime(sunsetTime)
          /\ alotHashaharTime' = shiftTime(alotHashaharTime)
          /\ intervals' = {[i EXCEPT !.targetTime = @ - DayMs, !.due = @ - DayMs] :
                             i \in intervals}
          /\ timeouts' = {[t EXCEPT !.due = @ - DayMs] : t \in timeouts}
          /\ fetches' = [d \in Dates |-> IF d = 1 THEN 0 ELSE fetches[d + 1]]
    /\ UNCHANGED <<loaded, mode, countdownInterval, cd, info>>

\* the clock advances; a response may take any time
Advance == clockStep /\ UNCHANGED waited

Next ==
    \/ DOMContentLoaded
    \/ \E date \in Dates : FetchFailure(date)
    \/ \E date \in Dates, elapsed \in {0, TickPeriod} : FetchSuccess(date, elapsed)
    \/ \E to \in timeouts : GraceFire(to)
    \/ \E i \in intervals : IntervalTick(i)
    \/ Advance

Spec == Init /\ [][Next]_vars


(***************************************************************************)
(* The controller when every refresh succeeds and the network is prompt:   *)
(* the clock takes at most MaxLatency steps in a row while requests are in *)
(* flight (waited counts them).  Timers, callbacks and the clock are       *)
(* scheduled fairly.                                                       *)
(***************************************************************************)
AdvanceLive ==
    /\ clockStep
    /\ inFlight > 0 => waited < MaxLatency
    /\ waited' = IF inFlight > 0 THEN waited + 1 ELSE 0

NextLive ==
    \/ DOMContentLoaded
    \/ \E date \in Dates, elapsed \in {0, TickPeriod} : FetchSuccess(date, elapsed)
    \/ \E to \in timeouts : GraceFire(to)
    \/ \E i \in intervals : IntervalTick(i)
    \/ AdvanceLive

FairLive ==
    /\ WF_vars(DOMContentLoaded)
    /\ WF_vars(\E date \in Dates, elapsed \in {0, TickPeriod} : FetchSuccess(date, elapsed))
    /\ WF_vars(\E to \in timeouts : GraceFire(to))
    /\ WF_vars(\E i \in intervals : IntervalTick(i))
    /\ WF_vars(AdvanceLive)

SpecLive == Init /\ [][NextLive]_vars /\ FairLive

(***************************************************************************)
(* One tick of a running countdown, for a range of remaining times: the    *)
(* state one timer period after startCountdown armed a countdown to a      *)
(* target that is diffMs away when the timer fires.                        *)
(***************************************************************************)
DiffSamples ==
    {0, 1, 999, 1000, 59999, 60000, 119999, 120000, 120001, 299999, 300000,
     300001, 3599999, 3600000, 3661000, 5399999, 5400000, 5400001, 5460000,
     90000000}
    \cup {k * 61000 : k \in 0 .. MaxSample}

InitTick ==
    \E diffMs \in DiffSamples, targetId \in Targets :
        LET target == TickPeriod + diffMs
            s0 == [cd |-> [t \in Targets |->
                              [text |-> Placeholder, color |-> defaultColor(t)]],
                   intervals |-> {}, timeouts |-> {}, countdownInterval |-> 0]
            s == startCountdown(0, target, targetId, s0)
        IN  /\ now = TickPeriod
            /\ loaded = TRUE
            /\ netzTime = IF targetId = "netz" THEN target ELSE 0 - TickPeriod
            /\ sunsetTime = IF targetId = "netz" THEN target + TickPeriod ELSE target
            /\ alotHashaharTime = calculateAlotHashahar(netzTime)
            /\ mode = targetId
            /\ countdownInterval = s.countdownInterval
            /\ intervals = s.intervals
            /\ timeouts = s.timeouts
            /\ fetches = [d \in Dates |-> 0]
            /\ waited = 0
            /\ cd = s.cd
            /\ info = TimeText

NextTick == \E i \in intervals : IntervalTick(i)

SpecTick == InitTick /\ [][NextTick]_vars

(***************************************************************************)
(* Vocabulary of the properties.                                           *)
(***************************************************************************)
\* a field shows a live countdown when its text is a time HH:MM:SS
Live(text) == Len(text) = 8 /\ text # Placeholder

\* refreshes that are pending: grace delays waiting to fire and requests in flight
pendingRefreshes == Cardinality(timeouts) + inFlight

\* this step is a run of tick by the interval timer i
TickStep(i) ==
    /\ i \in intervals /\ now >= i.due
    /\ intervals' # intervals /\ now' = now /\ fetches' = fetches

\* this step is the grace-delay callback of the timeout to
GraceStep(to) == to \in timeouts /\ timeouts' = timeouts \ {to} /\ now' = now

\* this step is the completion of a successful refresh for date
SuccessStep(date) ==
    /\ fetches[date] > 0
    /\ info' = TimeText
    /\ netzTime' = date * DayMs + SunriseMs
    /\ fetches' # fetches
    /\ now' >= now
    /\ timeouts \subseteq timeouts'

\* this step is the completion of a failed refresh
FailureStep == info' = ErrorText /\ inFlight' < inFlight

\* this step is a tick that observed remaining <= 0
ExpiryStep == Cardinality(timeouts') > Cardinality(timeouts)

digitValue(c) == CHOOSE k \in 0 .. 9 : Digit[k + 1] = c
twoDigits(text, k) ==
    IF text[k] \in {Digit[j] : j \in 1 .. 10} /\ text[k + 1] \in {Digit[j] : j \in 1 .. 10}
    THEN 10 * digitValue(text[k]) + digitValue(text[k + 1])
    ELSE 0 - 1

\* the tier the specification assigns to a remaining time
tierOf(remaining) ==
    IF remaining <= 120000 THEN "critical"
    ELSE IF remaining <= 300000 THEN "warning"
    ELSE "default"

countingDown(targetId) ==
    \E i \in intervals : i.targetId = targetId /\ i.targetTime > now

(***************************************************************************)
(* C1                                                                      *)
(***************************************************************************)
\* C1 (as stated): at most one of the two countdown fields shows a live
\* countdown and the other field shows the placeholder '--:--:--', in every
\* reachable state, also after handleApiError has written to both fields.
C1_AsStated ==
    /\ ~(Live(cd["netz"].text) /\ Live(cd["sunset"].text))
    /\ \E t \in Targets : cd[t].text = Placeholder

\* C1 (amended): at most one of the two countdown fields shows a live
\* countdown; while one does, the other field shows the placeholder or, after
\* a failed refresh, the API error marker.
C1_OneLiveCountdown ==
    /\ ~(Live(cd["netz"].text) /\ Live(cd["sunset"].text))
    /\ \A t \in Targets :
          Live(cd[t].text) => cd[otherTarget(t)].text \in {Placeholder, ApiErrorText}

\* a countdown is live while the other field still shows the marker of a failed refresh
C1_Witness ==
    \E t \in Targets : Live(cd[t].text) /\ cd[otherTarget(t)].text = ApiErrorText

(***************************************************************************)
(* C2                                                                      *)
(***************************************************************************)
\* C2: in every reachable state at most one repeating countdown timer is
\* armed, and it is the one countdownInterval holds.
C2_OneCountdownTimer ==
    /\ Cardinality(intervals) <= 1
    /\ \A i \in intervals : i.id = countdownInterval

\* a countdown was replaced: a timer is armed while two refreshes were pending
\* and one of them has already restarted the countdown
C2_Witness ==
    /\ intervals # {}
    /\ countdownInterval > 1
    /\ inFlight > 0

(***************************************************************************)
(* C3                                                                      *)
(***************************************************************************)
\* C3: a failed refresh schedules no retry (no request and no timer is added
\* by the failure), and from the failure until the next successful refresh
\* no countdown timer is armed.
C3_NoCountdownAfterFailure ==
    /\ [][FailureStep => /\ inFlight' = inFlight - 1
                         /\ timeouts' = timeouts
                         /\ intervals' = intervals]_vars
    /\ [](info = ErrorText => intervals = {})

(***************************************************************************)
(* C4                                                                      *)
(***************************************************************************)
\* C4: a tick with 0 < remaining <= 90 minutes writes HH:MM:SS, each field
\* two digits, hours = floor(remaining / 3600000), minutes and seconds the
\* remainders; a tick with remaining > 90 minutes writes the placeholder.
C4_TickText ==
    [][\A i \in intervals : TickStep(i) =>
          LET remaining == i.targetTime - now
              text == cd'[i.targetId].text
          IN  /\ (remaining > 0 /\ remaining <= 90 * 60000) =>
                    /\ Len(text) = 8
                    /\ text[3] = ":" /\ text[6] = ":"
                    /\ twoDigits(text, 1) = remaining \div 3600000
                    /\ twoDigits(text, 4) = (remaining % 3600000) \div 60000
                    /\ twoDigits(text, 7) = (remaining % 60000) \div 1000
              /\ remaining > 90 * 60000 => text = Placeholder]_vars

\* the tick with 61000 ms remaining has written 00:01:01 in red
C4_Witness ==
    \E t \in Targets :
        /\ cd[t] = [text |-> <<"0", "0", ":", "0", "1", ":", "0", "1">>, color |-> "red"]
        /\ \E i \in intervals : i.targetTime - now = 61000 /\ i.due > now

(***************************************************************************)
(* C5                                                                      *)
(***************************************************************************)
\* C5: the colour a tick applies is a function of the tier of remaining
\* (critical up to 120000 ms, warning up to 300000 ms, default above), and
\* the three tiers are distinguishable for both targets: a tick never applies
\* a colour that the same target gets in another tier.
C5_ColorTiers ==
    [][\A i \in intervals : TickStep(i) /\ i.targetTime - now > 0 =>
          LET remaining == i.targetTime - now
              color == cd'[i.targetId].color
          IN  \A other \in DiffSamples :
                  /\ (other > 0 /\ tierOf(other) = tierOf(remaining)) =>
                        color = tickColor(other, i.targetId)
                  /\ (other > 0 /\ tierOf(other) # tierOf(remaining)) =>
                        color # tickColor(other, i.targetId)]_vars

(***************************************************************************)
(* C6                                                                      *)
(***************************************************************************)
\* C6: a tick that observes remaining <= 0 (the first tick made by
\* startCountdown included) leaves no countdown timer armed, and the
\* grace-delay callback runs only when no countdown timer is armed.
C6_ExpiryStopsTimer ==
    [][/\ ExpiryStep => intervals' = {}
       /\ \A to \in timeouts : GraceStep(to) => intervals = {}]_vars

(***************************************************************************)
(* C7                                                                      *)
(***************************************************************************)
\* C7: a successful refresh enters toward-sunrise and arms a countdown to
\* sunriseTime if sunriseTime > now, else enters toward-sunset and arms a
\* countdown to sunsetTime if sunsetTime > now, else arms nothing, enters
\* toward-sunrise and requests tomorrow's data; and whenever a countdown
\* timer is armed its target is the current mode.
C7_RefreshSelectsMode ==
    /\ [][\A date \in Dates : SuccessStep(date) =>
            IF netzTime' > now
            THEN mode' = "netz" /\ \E i \in intervals' :
                     i.targetId = "netz" /\ i.targetTime = netzTime'
            ELSE IF sunsetTime' > now
            THEN mode' = "sunset" /\ \E i \in intervals' :
                     i.targetId = "sunset" /\ i.targetTime = sunsetTime'
            ELSE mode' = "netz" /\ intervals' = intervals
                     /\ fetches'[1] = fetches[1] + 1]_vars
    /\ [](\A i \in intervals : i.targetId = mode)

(***************************************************************************)
(* C8                                                                      *)
(***************************************************************************)
\* C8: the grace-delay callback after the toward-sunset countdown sets the
\* mode to toward-sunrise and requests tomorrow's data; after the
\* toward-sunrise countdown it sets the mode to toward-sunset and requests
\* today's data; only this callback and a successful refresh change the mode.
C8_FlipAfterExpiry ==
    [][/\ \A to \in timeouts : GraceStep(to) =>
             IF to.targetId = "sunset"
             THEN mode' = "netz" /\ fetches' = [fetches EXCEPT ![1] = @ + 1]
             ELSE mode' = "sunset" /\ fetches' = [fetches EXCEPT ![0] = @ + 1]
       /\ mode' # mode =>
             \/ \E to \in timeouts : GraceStep(to)
             \/ \E date \in Dates : SuccessStep(date)]_vars

\* the callback after a toward-sunset expiry has requested tomorrow's data
C8_Witness ==
    /\ mode = "netz"
    /\ fetches[1] > 0
    /\ cd["sunset"].text = PassedText
    /\ intervals = {}

C10_OnePendingRefresh ==
    /\ pendingRefreshes <= 1
    /\ intervals # {} => pendingRefreshes = 0

====
